---- MODULE Spec2Model ----
(***************************************************************************)
(* Model of src/context.rs (vk-bot): Context::new, the accessors and       *)
(* Context::send, run by one thread per inbound webhook request, all       *)
(* threads sharing one Arc<Mutex<APIClient>>.                              *)
(*                                                                         *)
(* Strings are TLA+ strings, built with \o as the code builds them.        *)
(* Option<T> is a sequence of length at most one: <<>> is None and <<v>>   *)
(* is Some(v).                                                             *)
(***************************************************************************)
EXTENDS Integers, Sequences, FiniteSets, TLC

(* ------------------------------ bounds -------------------------------- *)

\* Threads (one webhook request, hence one Context, each) of SpecConc.
NumContexts == 2
\* Longest attachment list a handler builds.
MaxAttachments == 2
\* Width of the modelled random_id: an i32 cut down to RandomBits bits.
RandomBits == 1

Contexts == 1..NumContexts

None == <<>>
Some(v) == <<v>>

(* ------------------------------ inputs -------------------------------- *)

Events == {"MessageAllow", "MessageTypingState", "MessageNew", "MessageReply"}

\* The nested message record: from_id is an Integer, peer_id an Option.
Messages == [from_id : {2, 3}, peer_id : {None, Some(2000000004)}]

\* The payload of an event. Context::new reads user_id and message only; the
\* top-level from_id is the flat shape of a typing-state payload.
Objects ==
    [user_id : {None, Some(1)}, from_id : {None, Some(2)},
     message : {None} \cup {Some(m) : m \in Messages}]

Texts == {"hi"}

AttachmentInfos ==
    {[type |-> "photo", owner_id |-> 1, id |-> 20],
     [type |-> "doc", owner_id |-> -5, id |-> 7]}

Keyboards == {[one_time |-> TRUE]}

\* rand::random::<i32>() at the modelled width.
RandomIds == (0 - 2 ^ (RandomBits - 1))..(2 ^ (RandomBits - 1) - 1)

\* What the handlers and the webhook dispatcher may supply.
Rich ==
    [events |-> Events, objects |-> Objects, texts |-> Texts,
     attachments |-> AttachmentInfos, maxAttachments |-> MaxAttachments,
     keyboards |-> Keyboards, randoms |-> RandomIds]

\* The same, cut down for the runs with several threads.
Small ==
    [events |-> {"MessageNew"},
     objects |-> {[user_id |-> None, from_id |-> None,
                   message |-> Some([from_id |-> 2, peer_id |-> Some(2000000004)])],
                  [user_id |-> None, from_id |-> None, message |-> None]},
     texts |-> Texts,
     attachments |-> {[type |-> "photo", owner_id |-> 1, id |-> 20]},
     maxAttachments |-> 1,
     keyboards |-> Keyboards, randoms |-> {0}]

(* ------------------------------- state -------------------------------- *)

VARIABLES
    pc,        \* pc[c]: where thread c is
    request,   \* request[c]: Option of the [event, object] the dispatcher passed to new
    ctx,       \* ctx[c]: Option of the Context {event, object, peer_id, response}
    result,    \* result[c]: what the thread's latest send returned
    panicMsg,  \* panicMsg[c]: the message of the panic that unwound thread c
    mutex,     \* the Mutex around the shared APIClient
    inflight,  \* the remote send-message calls in progress
    sent       \* Option of the latest remote call the API saw

vars == <<pc, request, ctx, result, panicMsg, mutex, inflight, sent>>

Ctx(c) == ctx[c][1]

EmptyResponse == [message |-> "", attachments |-> <<>>, keyboard |-> None]

Init ==
    /\ pc = [c \in Contexts |-> "request"]
    /\ request = [c \in Contexts |-> None]
    /\ ctx = [c \in Contexts |-> None]
    /\ result = [c \in Contexts |-> "None"]
    /\ panicMsg = [c \in Contexts |-> ""]
    /\ mutex = [holder |-> None, poisoned |-> FALSE]
    /\ inflight = {}
    /\ sent = None

(* --------------------------- pure functions --------------------------- *)

Digits == <<"0", "1", "2", "3", "4", "5", "6", "7", "8", "9">>

RECURSIVE FormatNat(_)
FormatNat(n) ==
    IF n < 10 THEN Digits[n + 1]
    ELSE FormatNat(n \div 10) \o Digits[(n % 10) + 1]

\* format!("{}", n) of an integer: decimal, "-" before a negative one.
FormatInt(n) == IF n < 0 THEN "-" \o FormatNat(0 - n) ELSE FormatNat(n)

\* info.to_string() of an attachment descriptor: <type><owner_id>_<id>.
InfoToString(info) ==
    info.type \o FormatInt(info.owner_id) \o "_" \o FormatInt(info.id)

\* attachments.iter().map(|info| info.to_string())
RECURSIVE MapToString(_)
MapToString(infos) ==
    IF infos = <<>> THEN <<>>
    ELSE <<InfoToString(Head(infos))>> \o MapToString(Tail(infos))

\* .fold(String::new(), |acc, v| acc + "," + &v)
RECURSIVE FoldAttachments(_)
FoldAttachments(strs) ==
    IF strs = <<>> THEN ""
    ELSE FoldAttachments(SubSeq(strs, 1, Len(strs) - 1)) \o "," \o strs[Len(strs)]

\* The JSON text serde_json::to_string gives for a keyboard when it succeeds.
KeyboardJson(kbd) ==
    "{\"one_time\":" \o (IF kbd.one_time THEN "true" ELSE "false")
        \o ",\"buttons\":[]}"

\* serde_json::to_string(kbd) is a Result: what it can return for a keyboard
\* (no serialization takes place when the response has none).
KeyboardOutcomes(kbd) ==
    IF kbd = None THEN {[ok |-> TRUE, json |-> None]}
    ELSE {[ok |-> TRUE, json |-> Some(KeyboardJson(kbd[1]))],
          [ok |-> FALSE, json |-> None]}

\* Params::insert: a HashMap insert, the new value replacing an old one.
Insert(params, key, value) ==
    [k \in DOMAIN params \cup {key} |-> IF k = key THEN value ELSE params[k]]

\* Mutant of PeerIdOf: a typing-state event addressed like the other kinds,
\* by the message record's peer_id.
PeerIdOfTypingByPeer(event, object) ==
    IF event = "MessageAllow" THEN
        IF object.user_id = None
        THEN [ok |-> FALSE, panic |-> "no user_id on message_allow object"]
        ELSE [ok |-> TRUE, peer_id |-> object.user_id[1]]
    ELSE
        IF object.message = None
        THEN [ok |-> FALSE, panic |-> "no message on object"]
        ELSE IF object.message[1].peer_id = None
        THEN [ok |-> FALSE, panic |-> "no peer_id on object"]
        ELSE [ok |-> TRUE, peer_id |-> object.message[1].peer_id[1]]

\* The match of Context::new: the peer id, or the message of the expect that
\* panics.
PeerIdOf(event, object) ==
    IF event = "MessageAllow" THEN
        IF object.user_id = None
        THEN [ok |-> FALSE, panic |-> "no user_id on message_allow object"]
        ELSE [ok |-> TRUE, peer_id |-> object.user_id[1]]
    ELSE IF event = "MessageTypingState" THEN
        IF object.message = None
        THEN [ok |-> FALSE, panic |-> "no message on message_typing_state object"]
        ELSE [ok |-> TRUE, peer_id |-> object.message[1].from_id]
    ELSE
        IF object.message = None
        THEN [ok |-> FALSE, panic |-> "no message on object"]
        ELSE IF object.message[1].peer_id = None
        THEN [ok |-> FALSE, panic |-> "no peer_id on object"]
        ELSE [ok |-> TRUE, peer_id |-> object.message[1].peer_id[1]]

\* Mutant of BuildParams: the message inserted without the is_empty test.
BuildParamsAlwaysMessage(peer_id, response, json, random_id) ==
    LET p0 == [k \in {"peer_id"} |-> FormatInt(peer_id)]
        p1 == Insert(p0, "message", response.message)
        p2 == IF response.attachments # <<>>
              THEN Insert(p1, "attachment",
                          FoldAttachments(MapToString(response.attachments)))
              ELSE p1
        p3 == IF json # None THEN Insert(p2, "keyboard", json[1]) ELSE p2
    IN  Insert(p3, "random_id", FormatInt(random_id))

\* Mutant of BuildParams: the random_id never inserted.
BuildParamsNoRandomId(peer_id, response, json, random_id) ==
    LET p0 == [k \in {"peer_id"} |-> FormatInt(peer_id)]
        p1 == IF response.message # ""
              THEN Insert(p0, "message", response.message) ELSE p0
        p2 == IF response.attachments # <<>>
              THEN Insert(p1, "attachment",
                          FoldAttachments(MapToString(response.attachments)))
              ELSE p1
    IN  IF json # None THEN Insert(p2, "keyboard", json[1]) ELSE p2

\* The parameter set send builds, given the serialized keyboard (an Option)
\* and the random_id it drew.
BuildParams(peer_id, response, json, random_id) ==
    LET p0 == [k \in {"peer_id"} |-> FormatInt(peer_id)]
        p1 == IF response.message # ""
              THEN Insert(p0, "message", response.message) ELSE p0
        p2 == IF response.attachments # <<>>
              THEN Insert(p1, "attachment",
                          FoldAttachments(MapToString(response.attachments)))
              ELSE p1
        p3 == IF json # None THEN Insert(p2, "keyboard", json[1]) ELSE p2
    IN  Insert(p3, "random_id", FormatInt(random_id))

\* Mutant of LockAvailable: the remote call made without waiting for the lock.
LockAvailableAlways == TRUE

\* Mutex::lock blocks until no thread holds the lock.
LockAvailable == mutex.holder = None

(* ------------------------------ actions ------------------------------- *)

\* Context::new(event, object, api), called by the dispatcher on thread c.
New(c, D) ==
    /\ pc[c] = "request"
    /\ \E event \in D.events, object \in D.objects :
        LET r == PeerIdOf(event, object) IN
        /\ request' = [request EXCEPT ![c] = Some([event |-> event, object |-> object])]
        /\ IF r.ok
           THEN /\ ctx' = [ctx EXCEPT ![c] =
                            Some([event |-> event, object |-> object,
                                  peer_id |-> r.peer_id,
                                  response |-> EmptyResponse])]
                /\ pc' = [pc EXCEPT ![c] = "handler"]
                /\ UNCHANGED panicMsg
           ELSE /\ pc' = [pc EXCEPT ![c] = "panicked"]
                /\ panicMsg' = [panicMsg EXCEPT ![c] = r.panic]
                /\ UNCHANGED ctx
    /\ UNCHANGED <<result, mutex, inflight, sent>>

\* The latest remote call stops being one a resend is compared with once its
\* sender mutates its response.
MarkMutated(c) ==
    IF sent # None /\ sent[1].by = c
    THEN Some([sent[1] EXCEPT !.clean = FALSE])
    ELSE sent

\* The handler writes r through response(), the &mut Response of the Context.
Mutate(c, r) ==
    /\ ctx' = [ctx EXCEPT ![c] = Some([Ctx(c) EXCEPT !.response = r])]
    /\ sent' = MarkMutated(c)
    /\ UNCHANGED <<pc, request, result, panicMsg, mutex, inflight>>

\* ctx.response() used to set the text.
SetMessage(c, D) ==
    /\ pc[c] = "handler"
    /\ \E text \in D.texts :
        /\ text # Ctx(c).response.message
        /\ Mutate(c, [Ctx(c).response EXCEPT !.message = text])

\* ctx.response() used to add an attachment.
PushAttachment(c, D) ==
    /\ pc[c] = "handler"
    /\ Len(Ctx(c).response.attachments) < D.maxAttachments
    /\ \E info \in D.attachments :
        Mutate(c, [Ctx(c).response EXCEPT !.attachments = Append(@, info)])

\* ctx.response() used to set the keyboard.
SetKeyboard(c, D) ==
    /\ pc[c] = "handler"
    /\ \E kbd \in D.keyboards :
        /\ Some(kbd) # Ctx(c).response.keyboard
        /\ Mutate(c, [Ctx(c).response EXCEPT !.keyboard = Some(kbd)])

\* The handler calls ctx.send(): the thread enters self.api.lock().
Send(c) ==
    /\ pc[c] = "handler"
    /\ pc' = [pc EXCEPT ![c] = "locking"]
    /\ result' = [result EXCEPT ![c] = "None"]
    /\ UNCHANGED <<request, ctx, panicMsg, mutex, inflight, sent>>

\* Mutant of LockFailed: lock().unwrap(), which panics on a poisoned mutex.
LockFailedUnwrap(c) ==
    /\ pc' = [pc EXCEPT ![c] = "panicked"]
    /\ panicMsg' = [panicMsg EXCEPT ![c] =
                      "called Result::unwrap() on an Err value"]
    /\ UNCHANGED <<request, ctx, result, mutex, inflight, sent>>

\* lock() on a poisoned mutex: map_err turns the PoisonError into
\* Error::Other, the guard inside it is dropped and ? returns the error.
LockFailed(c) ==
    /\ result' = [result EXCEPT ![c] =
                    "Err(Other(poisoned lock: another task failed inside))"]
    /\ pc' = [pc EXCEPT ![c] = "handler"]
    /\ UNCHANGED <<request, ctx, panicMsg, mutex, inflight, sent>>

\* expect("failed to serialize keyboard") on an Err: the thread unwinds, and
\* the guard dropped during the unwinding poisons the mutex and releases it.
KeyboardPanic(c) ==
    /\ pc' = [pc EXCEPT ![c] = "panicked"]
    /\ panicMsg' = [panicMsg EXCEPT ![c] = "failed to serialize keyboard"]
    /\ mutex' = [holder |-> None, poisoned |-> TRUE]
    /\ UNCHANGED <<request, ctx, result, inflight, sent>>

\* messages::send(&*api, params) is entered with the guard held.
IssueCall(c, params) ==
    /\ mutex' = [mutex EXCEPT !.holder = Some(c)]
    /\ inflight' = inflight \cup {[by |-> c, params |-> params]}
    /\ sent' = Some([by |-> c, params |-> params, clean |-> TRUE,
                     prev |-> IF sent # None /\ sent[1].by = c /\ sent[1].clean
                              THEN Some(sent[1].params) ELSE None])
    /\ pc' = [pc EXCEPT ![c] = "calling"]
    /\ UNCHANGED <<request, ctx, result, panicMsg>>

\* send from the return of lock() to the entry of the remote call.
SendAcquire(c, D) ==
    /\ pc[c] = "locking"
    /\ LockAvailable
    /\ IF mutex.poisoned
       THEN LockFailed(c)
       ELSE \E ser \in KeyboardOutcomes(Ctx(c).response.keyboard),
               random_id \in D.randoms :
               IF ser.ok
               THEN IssueCall(c, BuildParams(Ctx(c).peer_id, Ctx(c).response,
                                             ser.json, random_id))
               ELSE KeyboardPanic(c)

\* Mutant of SendReturn: the response erased once the call has returned.
SendReturnErasing(c) ==
    /\ pc[c] = "calling"
    /\ \E r \in {"Ok", "Err(API)"} :
        result' = [result EXCEPT ![c] = r]
    /\ inflight' = {call \in inflight : call.by # c}
    /\ mutex' = [mutex EXCEPT !.holder = None]
    /\ pc' = [pc EXCEPT ![c] = "handler"]
    /\ ctx' = [ctx EXCEPT ![c] = Some([Ctx(c) EXCEPT !.response = EmptyResponse])]
    /\ UNCHANGED <<request, panicMsg, sent>>

\* The remote call returns; .map(|_| ()) keeps its error; the guard is dropped.
SendReturn(c) ==
    /\ pc[c] = "calling"
    /\ \E r \in {"Ok", "Err(API)"} :
        result' = [result EXCEPT ![c] = r]
    /\ inflight' = {call \in inflight : call.by # c}
    /\ mutex' = [mutex EXCEPT !.holder = None]
    /\ pc' = [pc EXCEPT ![c] = "handler"]
    /\ UNCHANGED <<request, ctx, panicMsg, sent>>

Step(c, D) ==
    \/ New(c, D)
    \/ SetMessage(c, D)
    \/ PushAttachment(c, D)
    \/ SetKeyboard(c, D)
    \/ Send(c)
    \/ SendAcquire(c, D)
    \/ SendReturn(c)

\* One request, every input.
Next == Step(1, Rich)

Spec == Init /\ [][Next]_vars

\* NumContexts concurrent requests, the inputs cut down.
NextConc == \E c \in Contexts : Step(c, Small)

SpecConc == Init /\ [][NextConc]_vars

(* ------------------------------- claims ------------------------------- *)

\* C1: at most one remote send-message call is in flight at any time; the
\* thread whose call is in flight holds the client lock until the call
\* returns, and the parameter set of the call is made of that thread's own
\* Context only.
OneCallInFlight ==
    /\ Cardinality(inflight) <= 1
    /\ \A c \in Contexts :
        pc[c] = "calling" =>
            /\ mutex.holder = Some(c)
            /\ \E call \in inflight : call.by = c
    /\ \A call \in inflight :
        LET p == call.params
            r == Ctx(call.by).response
        IN  /\ pc[call.by] = "calling"
            /\ mutex.holder = Some(call.by)
            /\ p["peer_id"] = FormatInt(Ctx(call.by).peer_id)
            /\ "message" \in DOMAIN p => p["message"] = r.message
            /\ "attachment" \in DOMAIN p => r.attachments # <<>>
            /\ "keyboard" \in DOMAIN p => r.keyboard # None

\* C1 witness: one thread's call is in flight while another thread, whose
\* response differs, is blocked in lock().
OneCallInFlightWitness ==
    \E c1, c2 \in Contexts :
        /\ pc[c1] = "calling"
        /\ pc[c2] = "locking"
        /\ Ctx(c1).response # Ctx(c2).response

\* Parameter sets p and q agree on key k: both lack it or both map it to the
\* same string.
SameOn(p, q, k) ==
    /\ k \in DOMAIN p <=> k \in DOMAIN q
    /\ k \in DOMAIN p => p[k] = q[k]

\* C2: no step of send changes the Context (peer id, message, attachments and
\* keyboard stay as they were, whether send returns Ok or an error), and a
\* send repeated with no mutation of the response in between issues a call
\* with the same peer_id, message, attachment and keyboard parameters.
SendKeepsContext ==
    /\ [](sent # None /\ sent[1].prev # None =>
            \A k \in {"peer_id", "message", "attachment", "keyboard"} :
                SameOn(sent[1].params, sent[1].prev[1], k))
    /\ [][\A c \in Contexts :
            (pc[c] \in {"locking", "calling"} \/ pc'[c] = "locking")
                => ctx'[c] = ctx[c]]_vars

\* C2 witness: a second send with no mutation in between has returned an
\* error, the response carrying a message, two attachments and a keyboard.
SendKeepsContextWitness ==
    \E c \in Contexts :
        /\ sent # None /\ sent[1].by = c /\ sent[1].prev # None
        /\ pc[c] = "handler"
        /\ result[c] = "Err(API)"
        /\ Ctx(c).response.message # ""
        /\ Len(Ctx(c).response.attachments) = 2
        /\ Ctx(c).response.keyboard # None

\* The strings joined by single commas, none leading and none trailing.
RECURSIVE JoinComma(_)
JoinComma(strs) ==
    IF strs = <<>> THEN ""
    ELSE IF Len(strs) = 1 THEN strs[1]
    ELSE strs[1] \o "," \o JoinComma(Tail(strs))

\* C3: for a non-empty attachment list the attachment parameter is the string
\* forms of the attachments, in order, joined by single commas with no
\* leading and no trailing comma.
AttachmentJoined ==
    \A call \in inflight :
        Ctx(call.by).response.attachments # <<>> =>
            /\ "attachment" \in DOMAIN call.params
            /\ call.params["attachment"] =
                    JoinComma(MapToString(Ctx(call.by).response.attachments))

\* C4: every submitted parameter set has peer_id (the decimal form of the
\* Context's peer id) and random_id; it has message iff the text is
\* non-empty, attachment iff the list is non-empty, keyboard iff one is set;
\* and it has nothing else.
ParamsShape ==
    \A call \in inflight :
        LET p == call.params
            r == Ctx(call.by).response
        IN  /\ DOMAIN p \subseteq
                    {"peer_id", "message", "attachment", "keyboard", "random_id"}
            /\ "peer_id" \in DOMAIN p
            /\ p["peer_id"] = FormatInt(Ctx(call.by).peer_id)
            /\ "random_id" \in DOMAIN p
            /\ "message" \in DOMAIN p <=> r.message # ""
            /\ "attachment" \in DOMAIN p <=> r.attachments # <<>>
            /\ "keyboard" \in DOMAIN p <=> r.keyboard # None

\* C4 witness: a call submitted for an empty response, carrying peer_id and
\* random_id only.
ParamsShapeWitness ==
    \E call \in inflight :
        /\ Ctx(call.by).response = EmptyResponse
        /\ DOMAIN call.params = {"peer_id", "random_id"}

\* The addressing field the event kind needs is absent from the object.
MissingAddressingField(event, object) ==
    IF event = "MessageAllow" THEN object.user_id = None
    ELSE IF event = "MessageTypingState" THEN object.message = None
    ELSE object.message = None \/ object.message[1].peer_id = None

\* C5: constructing a Context when the addressing field of the event kind is
\* absent gives no Context and does not panic.
NewReportsError ==
    \A c \in Contexts :
        (request[c] # None
            /\ MissingAddressingField(request[c][1].event, request[c][1].object))
        => (ctx[c] = None /\ pc[c] # "panicked")

\* C6: a failed serialization of the keyboard makes send return an error: the
\* thread does not panic and the client lock is not poisoned.
KeyboardFailureIsError ==
    /\ \A c \in Contexts :
        ~(pc[c] = "panicked" /\ panicMsg[c] = "failed to serialize keyboard")
    /\ ~mutex.poisoned

\* C7: a send that finds the client lock poisoned returns an error describing
\* the lock failure; it does not panic, issues no remote call and does not
\* try again.
PoisonedLockIsError ==
    [][\A c \in Contexts :
        (pc[c] = "locking" /\ mutex.poisoned /\ pc'[c] # "locking") =>
            /\ pc'[c] = "handler"
            /\ result'[c] = "Err(Other(poisoned lock: another task failed inside))"
            /\ panicMsg'[c] = ""
            /\ inflight' = inflight
            /\ sent' = sent
            /\ mutex' = mutex]_vars

\* C7 witness: a send has returned the lock error on a poisoned lock.
PoisonedLockIsErrorWitness ==
    \E c \in Contexts :
        /\ mutex.poisoned
        /\ pc[c] = "handler"
        /\ result[c] = "Err(Other(poisoned lock: another task failed inside))"

\* C8: a typing-state event constructs a Context addressed to the sender
\* whether from_id is at the top level of the object or under a message
\* record.
TypingStateBothShapes ==
    \A c \in Contexts :
        (request[c] # None /\ request[c][1].event = "MessageTypingState") =>
            LET o == request[c][1].object IN
            /\ (o.message = None /\ o.from_id # None) =>
                    (ctx[c] # None /\ Ctx(c).peer_id = o.from_id[1])
            /\ (o.message # None /\ o.from_id = None) =>
                    (ctx[c] # None /\ Ctx(c).peer_id = o.message[1].from_id)

\* C9 as stated: a send repeated with no mutation of the response in between
\* carries a random_id other than the one of the call before it.
ResendDistinctRandomId ==
    (sent # None /\ sent[1].prev # None) =>
        sent[1].params["random_id"] # sent[1].prev[1]["random_id"]

\* C9 amended: every call carries a random_id, the decimal form of a value of
\* the random range drawn in that invocation; nothing makes it differ from
\* the random_id of an earlier call.
RandomIdDrawnPerCall ==
    /\ \A call \in inflight :
        /\ "random_id" \in DOMAIN call.params
        /\ \E r \in RandomIds : call.params["random_id"] = FormatInt(r)
    /\ (sent # None /\ sent[1].prev # None) =>
        \E r1, r2 \in RandomIds :
            /\ sent[1].prev[1]["random_id"] = FormatInt(r1)
            /\ sent[1].params["random_id"] = FormatInt(r2)

\* C9 witness: a send repeated with no mutation in between is in flight with
\* the random_id of the call before it.
RandomIdDrawnPerCallWitness ==
    /\ sent # None /\ sent[1].prev # None
    /\ \E call \in inflight : call.by = sent[1].by /\ call.params = sent[1].params
    /\ sent[1].params["random_id"] = sent[1].prev[1]["random_id"]

\* C10: the peer id of a Context is the object's user_id for MessageAllow, the
\* message record's from_id for MessageTypingState and the message record's
\* peer_id for every other kind; a new Context has an empty Response; and the
\* peer id of a Context never changes.
PeerIdByEventKind ==
    /\ [](\A c \in Contexts :
            ctx[c] # None =>
                LET e == request[c][1].event
                    o == request[c][1].object
                IN  /\ Ctx(c).event = e
                    /\ Ctx(c).object = o
                    /\ e = "MessageAllow" => Some(Ctx(c).peer_id) = o.user_id
                    /\ e = "MessageTypingState" =>
                            (o.message # None
                                /\ Ctx(c).peer_id = o.message[1].from_id)
                    /\ e \notin {"MessageAllow", "MessageTypingState"} =>
                            (o.message # None
                                /\ Some(Ctx(c).peer_id) = o.message[1].peer_id))
    /\ [][\A c \in Contexts :
            /\ (ctx[c] = None /\ ctx'[c] # None) =>
                    ctx'[c][1].response = EmptyResponse
            /\ ctx[c] # None =>
                    (ctx'[c] # None /\ ctx'[c][1].peer_id = ctx[c][1].peer_id)]_vars

\* C10 witness: a typing-state Context whose message record has both a
\* from_id and a peer_id is addressed to the from_id, after a mutation of the
\* response and a completed send.
PeerIdByEventKindWitness ==
    \E c \in Contexts :
        /\ ctx[c] # None
        /\ Ctx(c).event = "MessageTypingState"
        /\ Ctx(c).object.message[1].peer_id # None
        /\ Ctx(c).peer_id = Ctx(c).object.message[1].from_id
        /\ Ctx(c).response # EmptyResponse
        /\ result[c] = "Ok"

====
